---- MODULE Spec2Model ----
(***************************************************************************)
(* AbaoVec (src/src/vec.rs): an array backed, append only vector.  Several *)
(* threads share one vector through &self and call push, len, get and      *)
(* as_slice.  Every atomic operation and every plain memory access of the  *)
(* code is one step of the calling thread; steps of different threads      *)
(* interleave freely.                                                      *)
(***************************************************************************)
EXTENDS Integers, Sequences, FiniteSets, TLC

\* ---------------------------------------------------------------- bounds
MaxCap     == 2      \* largest buf.len() tried by new()
MaxPushes  == 5      \* push calls in one run
MaxReads   == 2      \* len/get/as_slice calls in one run
MaxVal     == 2      \* values pushed are 1..MaxVal
UsizeBits  == 2      \* bits of usize (AtomicUsize), scaled down from 16/32/64

\* The threads that share the vector through &AbaoVec, as in
\* scoped_insert: worker threads that push, and a thread that reads.
Pushers  == {1, 2}
Readers  == {3}
Threads  == Pushers \cup Readers
Values   == 1..MaxVal
UsizeMod == 2^UsizeBits      \* usize arithmetic wraps at 2^UsizeBits

\* A slot of buf is MaybeUninit<T>: never written, in the middle of a
\* ptr::write (a plain, non-atomic store), or holding a value.
Uninit == 0
Torn   == 0 - 1

VARIABLES
    cap,            \* self.buf.len(), fixed by new()
    next_idx,       \* self.next_idx
    confirmed_len,  \* self.confirmed_len
    buf,            \* self.buf, slot index -> Uninit | Torn | value
    pc,             \* per thread: where it is in its current call
    op,             \* per thread: the call it is in / last made
    arg,            \* per thread: push's t, get's idx
    idx,            \* per thread: push's local idx
    len,            \* per thread: len()'s local len
    ret,            \* per thread: what its call returned (none while it runs)
    alive,          \* the vector has not been dropped
    dropped,        \* slot index -> number of drop_in_place calls on it
    \* history of the run (not program state)
    nclaims,        \* number of fetch_add's executed so far
    nreads,         \* number of read calls started so far
    pos,            \* per thread: number of claims before its own claim
    claimCount,     \* slot index -> number of pushes that obtained it
    claimVal,       \* slot index -> value of the first push that obtained it
    writeCount,     \* slot index -> number of finished ptr::write's
    pubCount,       \* slot index -> number of compare_exchange successes from it
    okCount,        \* slot index -> number of pushes that returned Ok(index)
    pushed,         \* the values passed to the first cap pushes, in claim order
    seen,           \* per thread: largest index returned Ok before its claim
    observed        \* the values len() loaded from confirmed_len, in load order

vars == <<cap, next_idx, confirmed_len, buf, pc, op, arg, idx, len, ret,
          alive, dropped, seen, nclaims, nreads, pos, claimCount, claimVal, writeCount, pubCount,
          okCount, pushed, observed>>

hist   == <<nclaims, pos, claimCount, claimVal, writeCount, pubCount, okCount,
            pushed, seen>>
life   == <<alive, dropped>>

Slots == 0..(cap - 1)

\* ------------------------------------------------------------ return values
NoRet       == [kind |-> "none"]
RetOk(i)    == [kind |-> "ok", val |-> i]          \* Ok(idx)
RetOom      == [kind |-> "oom"]                    \* Err(OomError)
RetLen(n)   == [kind |-> "len", val |-> n]
RetSome(v)  == [kind |-> "some", val |-> v]        \* Some(&T), dereferenced
RetAbsent   == [kind |-> "absent"]                 \* None
RetSlice(s) == [kind |-> "slice", val |-> s]       \* &[T], read out
RetPanic    == [kind |-> "panic"]                  \* a debug_assert! failed

\* ------------------------------------------------------------ atomics
\* AtomicUsize::fetch_add(1): returns the old value and stores old + 1,
\* wrapping around on overflow.
FetchAddSkip(cur) == [old |-> cur, new |-> (cur + 2) % UsizeMod]
FetchAdd(cur) == [old |-> cur, new |-> (cur + 1) % UsizeMod]

\* AtomicUsize::compare_exchange(expected, new): stores new iff cur = expected.
CompareExchangeBlind(cur, expected, new) == [ok |-> TRUE, new |-> new]
CompareExchange(cur, expected, new) ==
    IF cur = expected THEN [ok |-> TRUE, new |-> new]
                      ELSE [ok |-> FALSE, new |-> cur]

\* ------------------------------------------------------------ new
Init ==
    /\ cap \in 0..MaxCap
    /\ next_idx = 0
    /\ confirmed_len = 0
    /\ buf = [i \in 0..(cap - 1) |-> Uninit]
    /\ pc = [t \in Threads |-> "idle"]
    /\ op = [t \in Threads |-> "none"]
    /\ arg = [t \in Threads |-> 0]
    /\ idx = [t \in Threads |-> 0]
    /\ len = [t \in Threads |-> 0]
    /\ ret = [t \in Threads |-> NoRet]
    /\ alive = TRUE
    /\ dropped = [i \in 0..(cap - 1) |-> 0]
    /\ seen = [t \in Threads |-> 0 - 1]
    /\ nclaims = 0
    /\ nreads = 0
    /\ pos = [t \in Threads |-> 0]
    /\ claimCount = [i \in 0..(cap - 1) |-> 0]
    /\ claimVal = [i \in 0..(cap - 1) |-> Uninit]
    /\ writeCount = [i \in 0..(cap - 1) |-> 0]
    /\ pubCount = [i \in 0..(cap - 1) |-> 0]
    /\ okCount = [i \in 0..(cap - 1) |-> 0]
    /\ pushed = << >>
    /\ observed = << >>

\* ------------------------------------------------------------ push
\* The largest index some push has already returned Ok for, -1 if none.
MaxOk ==
    IF \E i \in Slots : okCount[i] > 0
      THEN CHOOSE i \in Slots :
             okCount[i] > 0 /\ \A j \in Slots : okCount[j] > 0 => j <= i
      ELSE 0 - 1

\* push's bounds check: idx >= self.buf.len().
OutOfBoundsOffByOne(i, c) == i > c
OutOfBounds(i, c) == i >= c

\* push, step 1: fetch_add on next_idx, then the bounds check on the local idx.
PushClaim(t, v) ==
    /\ t \in Pushers
    /\ alive
    /\ pc[t] = "idle"
    /\ UNCHANGED life
    /\ nclaims < MaxPushes
    /\ LET fa == FetchAdd(next_idx) IN
        /\ next_idx' = fa.new
        /\ op' = [op EXCEPT ![t] = "push"]
        /\ pos' = [pos EXCEPT ![t] = nclaims]
        /\ nclaims' = nclaims + 1
        /\ pushed' = IF nclaims < cap THEN Append(pushed, v) ELSE pushed
        /\ IF OutOfBounds(fa.old, cap)
             THEN /\ pc' = [pc EXCEPT ![t] = "idle"]
                  /\ ret' = [ret EXCEPT ![t] = RetOom]
                  /\ UNCHANGED <<idx, arg, claimCount, claimVal, seen>>
             ELSE /\ pc' = [pc EXCEPT ![t] = "write"]
                  /\ ret' = [ret EXCEPT ![t] = NoRet]
                  /\ idx' = [idx EXCEPT ![t] = fa.old]
                  /\ arg' = [arg EXCEPT ![t] = v]
                  /\ seen' = [seen EXCEPT ![t] = MaxOk]
                  /\ claimCount' = [claimCount EXCEPT ![fa.old] = @ + 1]
                  /\ claimVal' = [claimVal EXCEPT ![fa.old] =
                                    IF claimCount[fa.old] = 0 THEN v ELSE @]
    /\ UNCHANGED <<cap, confirmed_len, buf, len, nreads, writeCount, pubCount,
                   okCount, observed>>

\* push, step 2: ptr::write(ptr, t) is a plain store; it is not atomic, so
\* the slot is torn from its start to its end.
PushWriteBegin(t) ==
    /\ pc[t] = "write"
    /\ UNCHANGED life
    /\ buf' = [buf EXCEPT ![idx[t]] = Torn]
    /\ pc' = [pc EXCEPT ![t] = "writing"]
    /\ UNCHANGED <<cap, next_idx, confirmed_len, op, arg, idx, len, ret,
                   nreads, observed>>
    /\ UNCHANGED hist

PushWriteEnd(t) ==
    /\ pc[t] = "writing"
    /\ UNCHANGED life
    /\ buf' = [buf EXCEPT ![idx[t]] = arg[t]]
    /\ writeCount' = [writeCount EXCEPT ![idx[t]] = @ + 1]
    /\ pc' = [pc EXCEPT ![t] = "cas"]
    /\ UNCHANGED <<cap, next_idx, confirmed_len, op, arg, idx, len, ret,
                   nreads, observed, nclaims, pos, claimCount, claimVal,
                   pubCount, okCount, pushed, seen>>

\* push, step 3: one compare_exchange(idx, idx + 1) on confirmed_len; on
\* success the loop ends, on failure the loop body runs.
PushCas(t) ==
    /\ pc[t] = "cas"
    /\ UNCHANGED life
    /\ LET cx == CompareExchange(confirmed_len, idx[t], idx[t] + 1) IN
        /\ confirmed_len' = cx.new
        /\ IF cx.ok
             THEN /\ pc' = [pc EXCEPT ![t] = "done"]
                  /\ pubCount' = [pubCount EXCEPT ![idx[t]] = @ + 1]
             ELSE /\ pc' = [pc EXCEPT ![t] = "spin"]
                  /\ UNCHANGED pubCount
    /\ UNCHANGED <<cap, next_idx, buf, op, arg, idx, len, ret, nreads, observed,
                   nclaims, pos, claimCount, claimVal, writeCount, okCount,
                   pushed, seen>>

\* push, after the loop: Ok(idx) goes back to the caller.
PushReturn(t) ==
    /\ pc[t] = "done"
    /\ UNCHANGED life
    /\ pc' = [pc EXCEPT ![t] = "idle"]
    /\ ret' = [ret EXCEPT ![t] = RetOk(idx[t])]
    /\ okCount' = [okCount EXCEPT ![idx[t]] = @ + 1]
    /\ idx' = [idx EXCEPT ![t] = 0]
    /\ arg' = [arg EXCEPT ![t] = 0]
    /\ seen' = [seen EXCEPT ![t] = 0 - 1]
    /\ UNCHANGED <<cap, next_idx, confirmed_len, buf, op, len, nreads, observed,
                   nclaims, pos, claimCount, claimVal, writeCount, pubCount,
                   pushed>>

\* push, loop body: atomic::spin_loop_hint(), then the condition again.
SpinLoopHint(t) ==
    /\ pc[t] = "spin"
    /\ UNCHANGED life
    /\ pc' = [pc EXCEPT ![t] = "cas"]
    /\ UNCHANGED <<cap, next_idx, confirmed_len, buf, op, arg, idx, len, ret,
                   nreads, observed>>
    /\ UNCHANGED hist

\* ------------------------------------------------------------ len
\* The first statement of len(): the load of confirmed_len.  len() is
\* called directly, by get(idx) and by as_slice().
LenLoad(t, o, i) ==
    /\ t \in Readers
    /\ alive
    /\ pc[t] = "idle"
    /\ UNCHANGED life
    /\ nreads < MaxReads
    /\ nreads' = nreads + 1
    /\ op' = [op EXCEPT ![t] = o]
    /\ arg' = [arg EXCEPT ![t] = i]
    /\ len' = [len EXCEPT ![t] = confirmed_len]
    /\ observed' = Append(observed, confirmed_len)
    /\ pc' = [pc EXCEPT ![t] = "len_assert"]
    /\ ret' = [ret EXCEPT ![t] = NoRet]
    /\ UNCHANGED <<cap, next_idx, confirmed_len, buf, idx>>
    /\ UNCHANGED hist

LenCall(t)     == LenLoad(t, "len", 0)
GetCall(t, i)  == LenLoad(t, "get", i)
AsSliceCall(t) == LenLoad(t, "as_slice", 0)

\* The two debug_assert!s of len(); the second loads next_idx.
LenAssertsHold(l, n, c) == l <= c /\ l <= n

\* What a debug_assert!(ok) does: it passes when ok, or when the build has
\* no debug assertions; it panics when ~ok in a build that has them.
AssertOutcomes(ok) == IF ok THEN {"pass"} ELSE {"pass", "panic"}

\* A read call hands r to its caller; its locals die with the call.
Return(t, r) ==
    /\ pc' = [pc EXCEPT ![t] = "idle"]
    /\ ret' = [ret EXCEPT ![t] = r]
    /\ arg' = [arg EXCEPT ![t] = 0]
    /\ len' = [len EXCEPT ![t] = 0]

\* The rest of len() and what its caller does with the result: len returns
\* it, get compares idx with it, as_slice builds &self.buf[0..len].
LenReturn(t) ==
    /\ pc[t] = "len_assert"
    /\ UNCHANGED life
    /\ \E o \in AssertOutcomes(LenAssertsHold(len[t], next_idx, cap)) :
       IF o = "panic"
         THEN Return(t, RetPanic)
         ELSE CASE op[t] = "len" -> Return(t, RetLen(len[t]))
                [] op[t] = "get" ->
                     IF arg[t] >= len[t]
                       THEN Return(t, RetAbsent)
                       ELSE /\ pc' = [pc EXCEPT ![t] = "read"]
                            /\ UNCHANGED <<ret, arg, len>>
                [] OTHER ->
                     /\ pc' = [pc EXCEPT ![t] = "view"]
                     /\ UNCHANGED <<ret, arg, len>>
    /\ UNCHANGED <<cap, next_idx, confirmed_len, buf, op, idx, nreads,
                   observed>>
    /\ UNCHANGED hist

\* The atomic orderings the code names.  A load synchronizes with the
\* compare_exchange (SeqCst, so a release store) whose value it reads only if
\* the load is Acquire or stronger; push's plain ptr::write to the slot
\* happens-before a reader's plain read of it only through such a load.
LenLoadOrdering == "Relaxed"
Synchronizes(ordering) == ordering \in {"Acquire", "AcqRel", "SeqCst"}

\* What a plain read of slot j can yield to a reader that found j below the
\* len it loaded: the slot's content if the write happens-before the read;
\* otherwise the read races with the write and can also yield what the slot
\* held before or during it.
Readable(b, j) ==
    IF Synchronizes(LenLoadOrdering) THEN {b[j]} ELSE {Uninit, Torn, b[j]}

\* get: the caller dereferences the &T that get_unchecked(idx) made.
GetDeref(t) ==
    /\ pc[t] = "read"
    /\ UNCHANGED life
    /\ \E x \in Readable(buf, arg[t]) : Return(t, RetSome(x))
    /\ UNCHANGED <<cap, next_idx, confirmed_len, buf, op, idx, nreads,
                   observed>>
    /\ UNCHANGED hist

\* as_slice: the caller reads the elements of the &[T] over buf[0..len].
SliceOf(b, n) == [j \in 1..n |-> b[j - 1]]
SlicesReadable(b, n) ==
    {s \in [1..n -> {Uninit, Torn} \cup Values] :
        \A j \in 1..n : s[j] \in Readable(b, j - 1)}

SliceRead(t) ==
    /\ pc[t] = "view"
    /\ UNCHANGED life
    /\ \E s \in SlicesReadable(buf, len[t]) : Return(t, RetSlice(s))
    /\ UNCHANGED <<cap, next_idx, confirmed_len, buf, op, idx, nreads,
                   observed>>
    /\ UNCHANGED hist

\* ------------------------------------------------------------ drop
\* Drop::drop takes &mut self, so it runs when no call is in progress: it
\* calls self.len() and drops the values of buf[0..len] in place.
DropInPlace(d, n) == [i \in DOMAIN d |-> IF i < n THEN d[i] + 1 ELSE d[i]]

Drop ==
    /\ alive
    /\ \A t \in Threads : pc[t] = "idle"
    /\ alive' = FALSE
    /\ \E o \in AssertOutcomes(LenAssertsHold(confirmed_len, next_idx, cap)) :
         dropped' = IF o = "panic" THEN dropped
                                  ELSE DropInPlace(dropped, confirmed_len)
    /\ UNCHANGED <<cap, next_idx, confirmed_len, buf, pc, op, arg, idx, len,
                   ret, nreads, observed>>
    /\ UNCHANGED hist

\* ------------------------------------------------------------ specification
\* The steps of a push that is in progress.
PushProgress(t) ==
    \/ PushWriteBegin(t)
    \/ PushWriteEnd(t)
    \/ PushCas(t)
    \/ PushReturn(t)
    \/ SpinLoopHint(t)

\* The steps of a read call that is in progress.
ReadProgress(t) ==
    \/ LenReturn(t)
    \/ GetDeref(t)
    \/ SliceRead(t)

Next ==
    \/ \E t \in Threads :
          \/ \E v \in Values : PushClaim(t, v)
          \/ PushProgress(t)
          \/ LenCall(t)
          \/ \E i \in 0..cap : GetCall(t, i)
          \/ AsSliceCall(t)
          \/ ReadProgress(t)
    \/ Drop

Spec == Init /\ [][Next]_vars

\* Every thread that is inside a call keeps being scheduled.
FairSpec ==
    /\ Spec
    /\ \A t \in Threads : WF_vars(PushProgress(t) \/ ReadProgress(t))

TypeOK ==
    /\ cap \in 0..MaxCap
    /\ next_idx \in 0..(UsizeMod - 1)
    /\ confirmed_len \in 0..cap
    /\ \A i \in Slots : buf[i] \in {Uninit, Torn} \cup Values

\* ------------------------------------------------------------ vocabulary
InFlight(t) == pc[t] # "idle"
Writing(t)  == pc[t] \in {"write", "writing"}
AllReturned == \A t \in Pushers : pc[t] = "idle"
Distinct(s) == \A i, j \in DOMAIN s : i # j => s[i] # s[j]
WrittenSlots == {i \in Slots : writeCount[i] > 0}
Min(a, b) == IF a <= b THEN a ELSE b
NonDecreasing(s) == \A i, j \in DOMAIN s : i <= j => s[i] <= s[j]

\* ------------------------------------------------------------ claims

\* C1: every slot below confirmed_len holds the value passed to the push
\* that claimed it (so it never changes once below the cursor), and a get(i)
\* about to dereference slot i finds that value there.
C1_PrefixWriteOnce ==
    /\ \A i \in Slots : i < confirmed_len => buf[i] = claimVal[i]
    /\ \A t \in Readers : pc[t] = "read" => buf[arg[t]] = claimVal[arg[t]]

\* C2: a push takes the Ok path exactly when fewer than cap claims preceded
\* its own, the index it returns is its position in claim order, no index is
\* returned twice, and from the (cap+1)-th claim on every push returns
\* OomError at once.
C2_CapacityBoundary ==
    /\ \A t \in Pushers : op[t] = "push" =>
          /\ pos[t] >= cap => (pc[t] = "idle" /\ ret[t] = RetOom)
          /\ (pos[t] < cap /\ pc[t] = "idle") => ret[t] = RetOk(pos[t])
    /\ \A i \in Slots : okCount[i] <= 1

\* C3: once exactly cap pushes of distinct values, made by the pusher
\* threads in any interleaving, have all returned, each returned Ok, and
\* as_slice() is the cap values, each once, in claim order.
C3_ConcurrentCompleteness ==
    (nclaims = cap /\ AllReturned /\ Distinct(pushed)) =>
        /\ \A i \in Slots : okCount[i] = 1
        /\ \A t \in Pushers : op[t] = "push" => ret[t].kind = "ok"
        /\ confirmed_len = cap
        /\ SliceOf(buf, confirmed_len) = pushed

C3_Witness ==
    /\ cap = 2 /\ nclaims = cap /\ AllReturned /\ Distinct(pushed)
    /\ ret[1] = RetOk(1) /\ ret[2] = RetOk(0)
    /\ SliceOf(buf, confirmed_len) = <<2, 1>>

\* C4: confirmed_len changes only by the compare_exchange of the push that
\* holds idx = confirmed_len, after that push finished its write, from idx
\* to idx + 1, and at most once from each cursor value.
C4_InOrderPublication ==
    [][confirmed_len' # confirmed_len =>
         \E t \in Pushers :
            /\ pc[t] = "cas" /\ pc'[t] = "done"
            /\ idx[t] = confirmed_len
            /\ confirmed_len' = idx[t] + 1
            /\ writeCount[idx[t]] >= 1
            /\ pubCount[idx[t]] = 0]_vars

\* Slot 1 was written and its push failed a compare_exchange before slot 0
\* was published; slot 0 is published now and slot 1 is not yet.
C4_Witness ==
    \E t \in Pushers :
        pc[t] = "spin" /\ idx[t] = 1 /\ confirmed_len = 1 /\ pubCount[0] = 1

\* C5: no index below cap is obtained by two pushes, no slot is written
\* twice, and no push is writing a slot that is already published.
C5_UniqueClaims ==
    /\ \A i \in Slots : claimCount[i] <= 1 /\ writeCount[i] <= 1
    /\ \A t \in Pushers : Writing(t) => idx[t] >= confirmed_len

\* C6: a get about to read slot arg, or an as_slice view over [0, len),
\* covers only slots below the cursor value it loaded, and no push is in
\* its write step on such a slot; every push in its write step holds an
\* index >= confirmed_len.
C6_ReadersNeverRaceWriters ==
    /\ \A r \in Readers : pc[r] = "read" =>
          /\ arg[r] < len[r]
          /\ \A t \in Pushers : Writing(t) => idx[t] # arg[r]
    /\ \A r \in Readers : pc[r] = "view" =>
          \A t \in Pushers : Writing(t) => idx[t] >= len[r]
    /\ \A t \in Pushers : Writing(t) => idx[t] >= confirmed_len

\* C7: confirmed_len <= min(next_idx, cap), and confirmed_len <= the number
\* of slots whose write has finished.
C7_CursorInvariant ==
    /\ confirmed_len <= Min(next_idx, cap)
    /\ confirmed_len <= Cardinality(WrittenSlots)

\* C8: confirmed_len never decreases, and the values that successive
\* len() calls load from it are non-decreasing in the order of the loads.
C8_MonotonicLength ==
    [][confirmed_len' >= confirmed_len /\ NonDecreasing(observed')]_vars

\* A len() loaded 1, and a later len() has loaded 2 and returned it.
C8_Witness ==
    \E r \in Readers :
        /\ observed = <<1, 2>>
        /\ pc[r] = "idle" /\ ret[r] = RetLen(2)

\* C9: the slice as_slice() hands out has exactly the len it loaded, and
\* its element j is the finished value of the push that claimed j and has
\* published; nothing at or beyond the loaded cursor is in it.
C9_GapFreeView ==
    /\ \A r \in Readers : pc[r] = "view" =>
          /\ len[r] <= confirmed_len
          /\ \A j \in 0..(len[r] - 1) :
                buf[j] \in Values /\ buf[j] = claimVal[j] /\ pubCount[j] >= 1
    /\ \A r \in Readers : (pc[r] = "idle" /\ ret[r].kind = "slice") =>
          \A j \in DOMAIN ret[r].val : ret[r].val[j] = claimVal[j - 1]

\* C10: when push is about to return Ok(idx), confirmed_len >= idx + 1 and
\* slot idx holds the value that push was given.
C10_ReturnedPushVisible ==
    \A t \in Pushers : pc[t] = "done" =>
        /\ confirmed_len >= idx[t] + 1
        /\ buf[idx[t]] = arg[t]

\* C11: a push that claims an index >= cap returns Err(OomError) in that
\* same step; the step writes no slot and leaves confirmed_len alone, and all
\* it does to the shared state is the fetch_add(1) on next_idx, so nothing
\* len, get or as_slice consult has changed.
C11_OomLeavesVectorUntouched ==
    [][(nclaims' # nclaims /\ next_idx >= cap) =>
          /\ buf' = buf
          /\ confirmed_len' = confirmed_len
          /\ cap' = cap
          /\ next_idx' = (next_idx + 1) % UsizeMod
          /\ \E t \in Pushers :
                /\ pc[t] = "idle" /\ pc'[t] = "idle"
                /\ ret'[t] = RetOom
                /\ \A u \in Threads \ {t} : pc'[u] = pc[u] /\ ret'[u] = ret[u]]_vars

C11_Witness ==
    /\ cap = 1 /\ nclaims = 2 /\ next_idx = 2
    /\ confirmed_len = 1 /\ buf[0] \in Values
    /\ \E t \in Pushers : pc[t] = "idle" /\ ret[t] = RetOom

\* C12: next_idx never decreases, and once some push has returned
\* Err(OomError) (more than cap claims have been made) every push that
\* claims afterwards returns Err(OomError) at its claim and writes no slot.
C12_ExhaustionPermanent ==
    [][/\ next_idx' >= next_idx
       /\ (nclaims > cap /\ nclaims' # nclaims) =>
             /\ buf' = buf
             /\ \E t \in Pushers :
                   pc[t] = "idle" /\ pc'[t] = "idle" /\ ret'[t] = RetOom]_vars

\* C13: a push that is in its spin loop (has claimed idx < cap, written its
\* slot and not yet published) finds confirmed_len at or below its idx: it
\* waits only for pushes with smaller indices, and once they have published
\* (confirmed_len = idx) its compare_exchange succeeds.
C13_SpinsOnlyBelowIdx ==
    \A t \in Pushers : pc[t] \in {"cas", "spin"} => confirmed_len <= idx[t]

\* C13, as termination: under FairSpec every push call returns.
C13_PushTerminates ==
    \A t \in Pushers : (pc[t] # "idle") ~> (pc[t] = "idle")

\* The pushes that hold an index below cap and have not published it yet.
Unpublished == {t \in Pushers : pc[t] \in {"write", "writing", "cas", "spin"}}

\* The state part of C14.
CursorGapBounded ==
    /\ Min(next_idx, cap) - confirmed_len <= Cardinality(Unpublished)
    /\ AllReturned => confirmed_len = Min(nclaims, cap)

\* C14: min(next_idx, cap) - confirmed_len is at most the number of pushes
\* that hold an index below cap and have not published it yet; and a len()
\* call that finishes while no push is in flight, and none has published
\* since its load, returns min(number of push calls made so far, cap).
C14_LenUndercountsInFlightOnly ==
    [][/\ CursorGapBounded'
       /\ \A r \in Readers :
            (/\ AllReturned
             /\ op[r] = "len" /\ pc[r] = "len_assert" /\ pc'[r] = "idle"
             /\ len[r] = confirmed_len)
            => ret'[r] = RetLen(Min(nclaims, cap))]_vars

\* C15: once the vector has been dropped, each slot below confirmed_len has
\* been destructed exactly once and no slot at or above it has been touched;
\* so each value a push stored and returned Ok for is destructed exactly
\* once, and nothing twice.
C15_DropDestructsCommittedPrefix ==
    ~alive =>
        /\ \A i \in Slots : dropped[i] = (IF i < confirmed_len THEN 1 ELSE 0)
        /\ \A i \in Slots : okCount[i] > 0 => dropped[i] = 1

\* C16: a step of len(), get(i) or as_slice() leaves next_idx, confirmed_len
\* and every slot unchanged; a read call that has started can always take
\* its next step, whatever the pushes are doing, and is back at its caller
\* after at most three steps (load, result of len, read of the slot or
\* slice); get(i) returns None exactly when i >= the len it loaded.
C16_ReadsWaitFreeNoEffect ==
    /\ [](\A r \in Readers : pc[r] # "idle" => ENABLED ReadProgress(r))
    /\ [][\A r \in Readers : pc'[r] # pc[r] =>
            /\ next_idx' = next_idx
            /\ confirmed_len' = confirmed_len
            /\ buf' = buf
            /\ pc[r] = "len_assert" => pc'[r] \in {"idle", "read", "view"}
            /\ pc[r] \in {"read", "view"} => pc'[r] = "idle"
            /\ (pc[r] = "len_assert" /\ op[r] = "get") =>
                  (ret'[r] = RetAbsent <=> arg[r] >= len[r])]_vars

\* C17: while a push that claimed idx i < cap has not published it (it may
\* never take another step), confirmed_len is at most i, no push holding a
\* larger index is past its spin loop, and a read call that has started can
\* still take its next step.  (That a push claiming an index >= cap still
\* returns Err(OomError) at once is C11.)
C17_StalledClaimantBlocksLaterOnly ==
    \A t \in Unpublished :
        /\ confirmed_len <= idx[t]
        /\ \A u \in Pushers : (pc[u] # "idle" /\ idx[u] > idx[t]) => pc[u] # "done"
        /\ \A r \in Readers : pc[r] # "idle" => ENABLED ReadProgress(r)

\* C18: the two debug_assert!s of len() hold whenever len() evaluates them:
\* the len it loaded from confirmed_len is <= buf.len() and <= the value
\* next_idx has when len() loads it afterwards.
C18_LenAssertionsHold ==
    \A r \in Readers : pc[r] = "len_assert" =>
        LenAssertsHold(len[r], next_idx, cap)

\* C19: a push about to return Ok(idx) holds an index larger than every
\* index that had been returned Ok before it was invoked, and every index
\* up to its own has been published by then (the pushes that hold the
\* smaller indices need not have returned).
C19_RealTimeOrder ==
    \A t \in Pushers : pc[t] = "done" =>
        /\ idx[t] > seen[t]
        /\ \A j \in 0..idx[t] : pubCount[j] >= 1

\* A push returned Ok(0) before another was invoked, which is about to
\* return Ok(1); and a holder of index 1 is about to return while the holder
\* of index 0 has published and not returned.
C19_Witness ==
    /\ \E t \in Pushers : pc[t] = "done" /\ idx[t] = 1 /\ seen[t] = 0
    /\ cap = 2

C19_WitnessOverlap ==
    \E t, u \in Pushers : pc[t] = "done" /\ idx[t] = 1 /\ pc[u] = "done" /\ idx[u] = 0

\* C20: what a reader gets from slot i, after len()'s Relaxed load of
\* confirmed_len gave it n > i, is a completely written value: get hands
\* back the value some push stored in that slot, as_slice a slice of such
\* values, never the content of an unwritten or half written slot.
C20_RelaxedLoadSeesCompletedWrite ==
    \A r \in Readers : pc[r] = "idle" =>
        /\ ret[r].kind = "some" => ret[r].val \in Values
        /\ ret[r].kind = "slice" =>
              \A j \in DOMAIN ret[r].val : ret[r].val[j] \in Values
====
